---- MODULE Spec2Model ----
(***************************************************************************)
(* Model of organize.py: categorize the regular files of a folder by       *)
(* extension, associate the files of every type folder with a bank of the  *)
(* registry, then rename every bank subfolder to carry its file count.     *)
(*                                                                         *)
(* Strings are sequences of one-character strings, so that suffixes, case  *)
(* conversion, substring tests, pattern search and name formatting are     *)
(* computed.  The file system is a set of entries [path, kind, id]; a path *)
(* is a sequence of names below the folder given to main, and id names the *)
(* file's identity (its content travels with it through a rename).         *)
(***************************************************************************)
EXTENDS Integers, Sequences, FiniteSets, TLC

\* ------------------------------------------------------------ bounds
\* At most MaxFiles regular files lie directly under the folder at the start.
MaxFiles == 2
\* A folder named CSV that already lies under the root holds at most MaxPre entries.
MaxPre == 2

\* ------------------------------------------------------------ strings
LowerChars == <<"a","b","c","d","e","f","g","h","i","j","k","l","m",
                "n","o","p","q","r","s","t","u","v","w","x","y","z">>
UpperChars == <<"A","B","C","D","E","F","G","H","I","J","K","L","M",
                "N","O","P","Q","R","S","T","U","V","W","X","Y","Z">>
Digits == <<"0","1","2","3","4","5","6","7","8","9">>

\* str.lower() and str.upper(), character by character.
LowerChar(c) ==
  IF \E i \in 1..26 : UpperChars[i] = c
  THEN LowerChars[CHOOSE i \in 1..26 : UpperChars[i] = c] ELSE c
UpperChar(c) ==
  IF \E i \in 1..26 : LowerChars[i] = c
  THEN UpperChars[CHOOSE i \in 1..26 : LowerChars[i] = c] ELSE c
Lower(s) == [i \in 1..Len(s) |-> LowerChar(s[i])]
Upper(s) == [i \in 1..Len(s) |-> UpperChar(s[i])]

\* str(n) of a count, in decimal.
RECURSIVE Str(_)
Str(n) == IF n < 10 THEN <<Digits[n + 1]>> ELSE Str(n \div 10) \o <<Digits[(n % 10) + 1]>>

\* s[1:]
Tail1(s) == IF Len(s) = 0 THEN <<>> ELSE SubSeq(s, 2, Len(s))

\* str.rfind("."): the 1-based place of the last dot, 0 when there is none.
LastDot(s) ==
  IF \E i \in 1..Len(s) : s[i] = "."
  THEN CHOOSE i \in 1..Len(s) : s[i] = "." /\ \A j \in (i+1)..Len(s) : s[j] # "."
  ELSE 0

\* PurePath.suffix: from the last dot, unless the dot starts or ends the name.
Suffix(name) ==
  LET i == LastDot(name)
  IN IF 1 < i /\ i < Len(name) THEN SubSeq(name, i, Len(name)) ELSE <<>>

\* PurePath.stem: the name without its suffix.
Stem(name) ==
  LET i == LastDot(name)
  IN IF 1 < i /\ i < Len(name) THEN SubSeq(name, 1, i - 1) ELSE name

\* s.split("_")[0]
SplitFirst(s) ==
  IF \E i \in 1..Len(s) : s[i] = "_"
  THEN SubSeq(s, 1, (CHOOSE i \in 1..Len(s) : s[i] = "_" /\ \A j \in 1..(i-1) : s[j] # "_") - 1)
  ELSE s

\* sub in s
Contains(sub, s) ==
  \E i \in 0..(Len(s) - Len(sub)) : SubSeq(s, i + 1, i + Len(sub)) = sub

\* re.compile succeeds.  The patterns of the registries below are written with
\* literal characters, "." (any character) and "(", which is never closed here:
\* re.error "missing ), unterminated subpattern".
ValidPattern(pat) == \A j \in 1..Len(pat) : pat[j] # "("

\* re.search(pat, s) is not None, for a valid pattern: unanchored, "." is a wildcard.
ReSearch(pat, s) ==
  \E i \in 0..(Len(s) - Len(pat)) :
    \A j \in 1..Len(pat) : pat[j] = "." \/ pat[j] = s[i + j]

\* ------------------------------------------------------------ file system
Root == <<>>
NoError == "none"

IsPrefix(p, q) == Len(p) <= Len(q) /\ SubSeq(q, 1, Len(p)) = p
Basename(p) == p[Len(p)]

\* Path.exists(), Path.is_dir(), Path.is_file()
Exists(f, p) == p = Root \/ \E e \in f : e.path = p
IsDir(f, p) == p = Root \/ \E e \in f : e.path = p /\ e.kind = "dir"
IsFile(f, p) == \E e \in f : e.path = p /\ e.kind = "file"

\* Path.iterdir(): the entries directly inside p, in no particular order.
Listing(f, p) == {e \in f : Len(e.path) = Len(p) + 1 /\ IsPrefix(p, e.path)}

\* The tree at src re-rooted at dst, whatever was at dst replaced.
Rebase(f, src, dst) ==
  {e \in f : ~IsPrefix(src, e.path) /\ ~IsPrefix(dst, e.path)}
    \cup {[e EXCEPT !.path = dst \o SubSeq(e.path, Len(src) + 1, Len(e.path))] :
            e \in {x \in f : IsPrefix(src, x.path)}}

\* os.rename(src, dst) on a POSIX file system.
OsRename(f, src, dst) ==
  IF ~Exists(f, src) THEN [fs |-> f, err |-> "FileNotFoundError"]
  ELSE IF src = dst THEN [fs |-> f, err |-> NoError]
  ELSE IF IsPrefix(src, dst) THEN [fs |-> f, err |-> "OSError"]
  ELSE IF ~Exists(f, dst) THEN [fs |-> Rebase(f, src, dst), err |-> NoError]
  ELSE IF IsFile(f, src)
    THEN IF IsFile(f, dst)
         THEN [fs |-> Rebase(f, src, dst), err |-> NoError]
         ELSE [fs |-> f, err |-> "IsADirectoryError"]
    ELSE IF IsFile(f, dst) THEN [fs |-> f, err |-> "NotADirectoryError"]
         ELSE IF Listing(f, dst) = {}
              THEN [fs |-> Rebase(f, src, dst), err |-> NoError]
              ELSE [fs |-> f, err |-> "OSError"]

\* shutil.move(src, dst): into dst when dst is a directory, onto dst otherwise.
\* Every OSError of the rename ends in an error of the copy fall-back as well.
ShutilMove(f, src, dst) ==
  IF IsDir(f, dst)
  THEN IF src = dst THEN OsRename(f, src, dst)
       ELSE IF Exists(f, dst \o <<Basename(src)>>)
            THEN [fs |-> f, err |-> "shutil.Error"]
            ELSE OsRename(f, src, dst \o <<Basename(src)>>)
  ELSE OsRename(f, src, dst)

\* create_folder(path): mkdir unless something, a folder or not, is already there.
create_folder(f, path) ==
  IF ~Exists(f, path) THEN f \cup {[path |-> path, kind |-> "dir", id |-> 0]} ELSE f

\* ------------------------------------------------------------ registry
\* json.load(./bank.json): the banks in the order of the document (dict order),
\* each with its Bank_ID and its Accounts.  The registries a run can be given:
Chase == [name |-> <<"C","h","a","s","e">>, Bank_ID |-> <<"C","H","K","1">>,
          Accounts |-> <<[Account_ID |-> <<"9","9","8","8">>, Account_Name |-> "Savings"]>>]
Wells == [name |-> <<"W","e","l","l","s">>, Bank_ID |-> <<"W","F","B">>,
          Accounts |-> <<[Account_ID |-> <<"A","C","C","-","4","2">>, Account_Name |-> "Checking"]>>]
USBank == [name |-> <<"U",".","S">>, Bank_ID |-> <<"U","S",".">>,
           Accounts |-> <<[Account_ID |-> <<"4",".","2">>, Account_Name |-> "Card"]>>]
BadBank == [name |-> <<"B","a","d">>, Bank_ID |-> <<"(">>, Accounts |-> <<>>]

RegChase == <<Chase>>
RegTwo == <<Chase, Wells>>
RegDot == <<USBank>>
RegBad == <<BadBank, Chase>>
Registries == {RegChase, RegTwo, RegDot, RegBad}

\* ------------------------------------------------------------ files
\* The regular files that may lie under the root at the start.  text is what the
\* readers return: for a CSV the string form of the data cells of pd.read_csv,
\* for a PDF the text of its pages in page order; readable = FALSE is a file on
\* which the reader raises.
Catalog == <<
  [name |-> <<"s","t","a","t","e","m","e","n","t","_","9","9","8","8",".","c","s","v">>, text |-> <<<<"1","0","0">>>>, readable |-> TRUE],
  [name |-> <<"r","a","n","d","o","m",".","c","s","v">>, text |-> <<<<"7">>>>, readable |-> TRUE],
  [name |-> <<"C","h","a","s","e","_","W","e","l","l","s",".","c","s","v">>, text |-> <<>>, readable |-> TRUE],
  [name |-> <<"t",".","c","s","v">>, text |-> <<<<"n","9","9","8","8">>, <<"A","C","C","-","4","2">>, <<"4","x","2">>>>, readable |-> TRUE],
  [name |-> <<"b","a","d",".","c","s","v">>, text |-> <<<<"9","9","8","8">>>>, readable |-> FALSE],
  [name |-> <<"w",".","p","d","f">>, text |-> <<<<"A","C","C","-","4","2">>, <<"4","x","2">>>>, readable |-> TRUE],
  [name |-> <<"C","h","a","s","e">>, text |-> <<>>, readable |-> TRUE],
  [name |-> <<"m","y","C","h","a","s","e">>, text |-> <<>>, readable |-> TRUE],
  [name |-> <<"P","D","F","_","1">>, text |-> <<>>, readable |-> TRUE],
  [name |-> <<"U","S","B","7">>, text |-> <<>>, readable |-> TRUE] >>
CatalogIds == 1..Len(Catalog)

\* Files that lie deeper in the tree at the start are told apart by their ids.
DummyId(k) == 100 + k
RerunId(k) == 200 + k
Known(id) == id \in CatalogIds

\* The content of the file with identity id, as the readers see it.
Readable(id) == IF Known(id) THEN Catalog[id].readable ELSE TRUE
Text(id) == IF Known(id) THEN Catalog[id].text ELSE <<>>

FileEntry(path, id) == [path |-> path, kind |-> "file", id |-> id]
DirEntry(path) == [path |-> path, kind |-> "dir", id |-> 0]

\* A folder `name` that already lies under the root, holding k files.
PreDir(name, k, base) ==
  IF k = 0 THEN {}
  ELSE {DirEntry(<<name>>)} \cup
       {FileEntry(<<name, <<"x">> \o Str(j)>>, DummyId(base + j)) : j \in 1..k}

s_CSV == <<"C","S","V">>
s_PDF == <<"P","D","F">>
\* What an earlier run that was aborted before its recount left behind: a type
\* folder CSV_1 whose bank folder Chase already holds files of the same names.
Rerun ==
  {DirEntry(<<<<"C","S","V","_","1">>>>), DirEntry(<<<<"C","S","V","_","1">>, Chase.name>>),
   FileEntry(<<<<"C","S","V","_","1">>, Chase.name, Catalog[3].name>>, RerunId(3)),
   FileEntry(<<<<"C","S","V","_","1">>, Chase.name, Catalog[4].name>>, RerunId(4))}

\* The trees a run can start from: up to MaxFiles catalog files directly under the
\* root, and optionally folders CSV and PDF and the remains of an earlier run.
PreLayouts ==
  {PreDir(s_CSV, c, 0) \cup PreDir(s_PDF, p, 50) \cup (IF r THEN Rerun ELSE {}) :
     <<c, p, r>> \in {t \in (0..MaxPre) \X (0..1) \X BOOLEAN : t[3] => t[1] = 1}}
RootFileSets == {S \in SUBSET CatalogIds : Cardinality(S) <= MaxFiles}
RootFiles(S) == {FileEntry(<<Catalog[i].name>>, i) : i \in S}

\* ------------------------------------------------------------ state
VARIABLES
  pc,             \* where main is, or where it was when an exception ended it
  err,            \* the uncaught exception that ended the run, or NoError
  fs,             \* the tree under the folder given to main
  fs0,            \* the tree at the start of the run
  folder_path,    \* what the path typed in names: "dir", "file" or "missing"
  json_path,      \* ./bank.json: "present" or "missing"
  json_data,      \* the registry of ./bank.json
  file_inventory, \* categorize: the extensions in dict order, each with its files
  gi,             \* categorize: the place in file_inventory.items()
  todo,           \* categorize: the files of the group still to be moved
  ti,             \* associate: the place in file_types
  type_folder,    \* the type folder being filled or processed
  listing,        \* associate: the entries type_folder.iterdir() listed
  pending,        \* associate: the listed paths not yet visited
  file,           \* associate: the entry the loop body last worked on, as it found it
  subfolders,     \* recount: what type_folder.iterdir() listed
  subpending,     \* recount: the listed paths not yet visited
  subfolder,      \* recount: the path the loop body last worked on
  log             \* the match and content-check lines printed so far

vars == <<pc, err, fs, fs0, folder_path, json_path, json_data, file_inventory, gi,
          todo, ti, type_folder, listing, pending, file, subfolders, subpending,
          subfolder, log>>

NoFile == [path |-> Root, kind |-> "none", id |-> 0]

\* The entry now at path p.
Cur(f, p) == IF Exists(f, p) /\ p # Root THEN CHOOSE e \in f : e.path = p ELSE NoFile

Init ==
  /\ pc = "main"
  /\ err = NoError
  /\ folder_path \in {"dir", "file", "missing"}
  /\ json_path \in {"present", "missing"}
  /\ json_data \in Registries
  /\ \E S \in RootFileSets, pre \in PreLayouts :
       fs = IF folder_path = "dir" THEN RootFiles(S) \cup pre ELSE {}
  /\ fs0 = fs
  /\ file_inventory = <<>>
  /\ gi = 1
  /\ todo = {}
  /\ ti = 1
  /\ type_folder = Root
  /\ listing = {}
  /\ pending = {}
  /\ file = NoFile
  /\ subfolders = {}
  /\ subpending = {}
  /\ subfolder = Root
  /\ log = {}

\* ------------------------------------------------------------ main
\* main, lines 172-181: both paths must exist, or the run ends with a message.
Validate ==
  /\ pc = "main"
  /\ err = NoError
  /\ pc' = IF folder_path = "missing" \/ json_path = "missing" THEN "invalid" ELSE "scan"
  /\ UNCHANGED <<err, fs, fs0, folder_path, json_path, json_data, file_inventory, gi,
                 todo, ti, type_folder, listing, pending, file, subfolders,
                 subpending, subfolder, log>>

\* ------------------------------------------------------------ categorize
\* ext = file.suffix.lower()
Ext(name) == Lower(Suffix(name))
\* f"{ext[1:].upper()}_{n}"
TypeFolderName(ext, n) == Upper(Tail1(ext)) \o <<"_">> \o Str(n)

\* Lines 31-38: list the folder and group its regular files by extension.  The
\* order of os.listdir is not specified: any order of the extensions may be the
\* dict order, and any order of the files of one group the order of its list.
Scan ==
  /\ pc = "scan"
  /\ err = NoError
  /\ IF folder_path = "file"
     THEN /\ err' = "NotADirectoryError"
          /\ UNCHANGED <<pc, file_inventory>>
     ELSE LET files == {e \in Listing(fs, Root) : e.kind = "file"}
              exts == {Ext(Basename(e.path)) : e \in files}
              group(x) == {e.path : e \in {y \in files : Ext(Basename(y.path)) = x}}
          IN /\ \E order \in {o \in [1..Cardinality(exts) -> exts] :
                                \A i, j \in 1..Cardinality(exts) : o[i] = o[j] => i = j} :
                  file_inventory' =
                    [i \in 1..Cardinality(exts) |-> [ext |-> order[i], files |-> group(order[i])]]
             /\ pc' = "categorize"
             /\ err' = err
  /\ gi' = 1
  /\ UNCHANGED <<fs, fs0, folder_path, json_path, json_data, todo, ti, type_folder,
                 listing, pending, file, subfolders, subpending, subfolder, log>>

\* Lines 41-43: the next group's type folder; after the last group, line 50.
CategorizeGroup ==
  /\ pc = "categorize"
  /\ err = NoError
  /\ IF gi > Len(file_inventory)
     THEN /\ pc' = "associate"
          /\ ti' = 1
          /\ UNCHANGED <<fs, type_folder, todo>>
     ELSE LET g == file_inventory[gi]
              tf == <<TypeFolderName(g.ext, Cardinality(g.files))>>
          IN /\ type_folder' = tf
             /\ fs' = create_folder(fs, tf)
             /\ todo' = g.files
             /\ pc' = "categorize_move"
             /\ ti' = ti
  /\ UNCHANGED <<err, fs0, folder_path, json_path, json_data, file_inventory, gi,
                 listing, pending, file, subfolders, subpending, subfolder, log>>

\* Lines 44-46: shutil.move(file, type_folder) for one file of the group.
MoveToTypeFolder ==
  /\ pc = "categorize_move"
  /\ err = NoError
  /\ todo # {}
  /\ \E p \in todo :
       LET r == ShutilMove(fs, p, type_folder)
       IN /\ fs' = r.fs
          /\ err' = r.err
          /\ todo' = todo \ {p}
  /\ UNCHANGED <<pc, fs0, folder_path, json_path, json_data, file_inventory, gi, ti,
                 type_folder, listing, pending, file, subfolders, subpending,
                 subfolder, log>>

\* Line 41: the group is done, on to the next.
NextGroup ==
  /\ pc = "categorize_move"
  /\ err = NoError
  /\ todo = {}
  /\ gi' = gi + 1
  /\ pc' = "categorize"
  /\ UNCHANGED <<err, fs, fs0, folder_path, json_path, json_data, file_inventory,
                 todo, ti, type_folder, listing, pending, file, subfolders,
                 subpending, subfolder, log>>

\* ------------------------------------------------------------ associate
\* Line 58: base_path / file_type[1:].upper(), the folder whose entries are counted
\* (base_path itself for the files without an extension).
CountedFolder(ext) == IF Tail1(ext) = <<>> THEN Root ELSE <<Upper(Tail1(ext))>>

\* Lines 56-59: the type folder the associator looks for.
ResolvedTypeFolder(f, ext) ==
  <<TypeFolderName(ext, Cardinality(Listing(f, CountedFolder(ext))))>>

\* Line 60: if not type_folder.exists(): continue
SkipType_NoCheck(f, tf) == FALSE
SkipType(f, tf) == ~Exists(f, tf)

\* Line 71: bank in file.name or re.search(bank_id, file.name); "match", "none",
\* or "error" when the pattern does not compile.
BankFilenameCheck_RegexOnly(bank, name) ==
  IF ~ValidPattern(bank.Bank_ID) THEN "error"
  ELSE IF ReSearch(bank.Bank_ID, name) THEN "match" ELSE "none"
BankFilenameCheck(bank, name) ==
  IF Contains(bank.name, name) THEN "match"
  ELSE IF ~ValidPattern(bank.Bank_ID) THEN "error"
  ELSE IF ReSearch(bank.Bank_ID, name) THEN "match" ELSE "none"

\* Lines 78-86: the first account, from the i-th on, whose Account_ID is found in
\* the file name; a pattern that does not compile raises when its turn comes.
RECURSIVE AccountFilenameCheck(_, _, _)
AccountFilenameCheck(accounts, i, name) ==
  IF i > Len(accounts) THEN "none"
  ELSE IF ~ValidPattern(accounts[i].Account_ID) THEN "error"
  ELSE IF ReSearch(accounts[i].Account_ID, name) THEN "match"
  ELSE AccountFilenameCheck(accounts, i + 1, name)

\* Lines 125-138: some data cell of the table, as a string, holds a match of the
\* pattern account_id; any exception (an unreadable file, a folder, a pattern that
\* does not compile) is caught and answers False.
check_csv_Equals(f, path, account_id) ==
  LET e == Cur(f, path)
  IN /\ e.kind = "file"
     /\ Readable(e.id)
     /\ \E k \in 1..Len(Text(e.id)) : Text(e.id)[k] = account_id
check_csv_for_account_id(f, path, account_id) ==
  LET e == Cur(f, path)
  IN /\ e.kind = "file"
     /\ Readable(e.id)
     /\ ValidPattern(account_id)
     /\ \E k \in 1..Len(Text(e.id)) : ReSearch(account_id, Text(e.id)[k])

\* Lines 141-156: the text of some page holds account_id as a plain substring.
check_pdf_Regex(f, path, account_id) ==
  LET e == Cur(f, path)
  IN /\ e.kind = "file"
     /\ Readable(e.id)
     /\ ValidPattern(account_id)
     /\ \E k \in 1..Len(Text(e.id)) : ReSearch(account_id, Text(e.id)[k])
check_pdf_for_account_id(f, path, account_id) ==
  LET e == Cur(f, path)
  IN /\ e.kind = "file"
     /\ Readable(e.id)
     /\ \E k \in 1..Len(Text(e.id)) : Contains(account_id, Text(e.id)[k])

\* Lines 90 and 100: which reader the suffix of the file selects.
ContentKind(name) ==
  IF Ext(name) = <<".","c","s","v">> THEN "csv"
  ELSE IF Ext(name) = <<".","p","d","f">> THEN "pdf" ELSE "none"

ContentCheck(f, path, account_id) ==
  IF ContentKind(Basename(path)) = "csv" THEN check_csv_for_account_id(f, path, account_id)
  ELSE IF ContentKind(Basename(path)) = "pdf" THEN check_pdf_for_account_id(f, path, account_id)
  ELSE FALSE

\* Lines 92-99 and 102-109: the number of accounts whose content check is run, the
\* last of them the first that answers True (all of them when none does).
RECURSIVE ContentChecksRun(_, _, _, _)
ContentChecksRun(f, path, accounts, i) ==
  IF i > Len(accounts) THEN Len(accounts)
  ELSE IF ContentCheck(f, path, accounts[i].Account_ID) THEN i
  ELSE ContentChecksRun(f, path, accounts, i + 1)

MatchLine(path, bank, by) ==
  [ev |-> "match", file |-> path, bank |-> bank.name, by |-> by, account |-> <<>>]
CheckLine(path, bank, account_id) ==
  [ev |-> "check", file |-> path, bank |-> bank.name,
   by |-> ContentKind(Basename(path)), account |-> account_id]

\* Lines 67-109, the body of the loop over the banks for one bank: what it finds
\* ("move" with the kind of match, "none", or "error") and the lines it prints.
AssociateBank(f, path, bank) ==
  LET name == Basename(path)
      byBank == BankFilenameCheck(bank, name)
      byAccount == AccountFilenameCheck(bank.Accounts, 1, name)
      n == IF ContentKind(name) = "none" THEN 0
           ELSE ContentChecksRun(f, path, bank.Accounts, 1)
      checks == {CheckLine(path, bank, bank.Accounts[k].Account_ID) : k \in 1..n}
      hit == n > 0 /\ ContentCheck(f, path, bank.Accounts[n].Account_ID)
  IN IF byBank = "match" THEN [res |-> "move", lines |-> {MatchLine(path, bank, "filename")}]
     ELSE IF byBank = "error" THEN [res |-> "error", lines |-> {}]
     ELSE IF byAccount = "match" THEN [res |-> "move", lines |-> {MatchLine(path, bank, "account")}]
     ELSE IF byAccount = "error" THEN [res |-> "error", lines |-> {}]
     ELSE IF hit THEN [res |-> "move",
                       lines |-> checks \cup {MatchLine(path, bank, ContentKind(name))}]
     ELSE [res |-> "none", lines |-> checks]

\* Lines 66-111: the banks in registry order, from the i-th on, until one matches.
RECURSIVE Associate(_, _, _, _)
Associate(f, path, banks, i) ==
  IF i > Len(banks) THEN [res |-> "none", bank |-> 0, lines |-> {}]
  ELSE LET r == AssociateBank(f, path, banks[i])
       IN IF r.res = "none"
          THEN LET rest == Associate(f, path, banks, i + 1)
               IN [rest EXCEPT !.lines = r.lines \cup rest.lines]
          ELSE [res |-> r.res, bank |-> i, lines |-> r.lines]

\* Lines 117-122: create the bank folder unless the path exists, then move.
move_to_bank_folder(f, tf, path, bank) ==
  ShutilMove(create_folder(f, tf \o <<bank>>), path, tf \o <<bank>>)

\* Lines 55-64: the next extension: resolve its type folder, skip it when it does
\* not exist, else list it; after the last extension main prints and returns.
AssociateResolve ==
  /\ pc = "associate"
  /\ err = NoError
  /\ IF ti > Len(file_inventory)
     THEN /\ pc' = "done"
          /\ UNCHANGED <<err, ti, type_folder, listing, pending, file>>
     ELSE LET ext == file_inventory[ti].ext
              d == CountedFolder(ext)
              tf == ResolvedTypeFolder(fs, ext)
          IN IF ~IsDir(fs, d)
             THEN /\ err' = IF Exists(fs, d) THEN "NotADirectoryError" ELSE "FileNotFoundError"
                  /\ UNCHANGED <<pc, ti, type_folder, listing, pending, file>>
             ELSE IF SkipType(fs, tf)
             THEN /\ ti' = ti + 1
                  /\ type_folder' = tf
                  /\ UNCHANGED <<pc, err, listing, pending, file>>
             ELSE IF ~IsDir(fs, tf)
             THEN /\ err' = IF Exists(fs, tf) THEN "NotADirectoryError" ELSE "FileNotFoundError"
                  /\ type_folder' = tf
                  /\ UNCHANGED <<pc, ti, listing, pending, file>>
             ELSE /\ pc' = "associate_file"
                  /\ type_folder' = tf
                  /\ listing' = Listing(fs, tf)
                  /\ pending' = {e.path : e \in Listing(fs, tf)}
                  /\ file' = NoFile
                  /\ UNCHANGED <<err, ti>>
  /\ UNCHANGED <<fs, fs0, folder_path, json_path, json_data, file_inventory, gi, todo,
                 subfolders, subpending, subfolder, log>>

\* Lines 64-111: the loop body for one listed entry.
AssociateFile ==
  /\ pc = "associate_file"
  /\ err = NoError
  /\ pending # {}
  /\ \E p \in pending :
       LET a == Associate(fs, p, json_data, 1)
           mv == move_to_bank_folder(fs, type_folder, p, json_data[a.bank].name)
       IN /\ pending' = pending \ {p}
          /\ file' = Cur(fs, p)
          /\ log' = log \cup a.lines
          /\ IF a.res = "error"
             THEN /\ err' = "re.error"
                  /\ fs' = fs
             ELSE IF a.res = "move"
             THEN /\ fs' = mv.fs
                  /\ err' = mv.err
             ELSE UNCHANGED <<err, fs>>
  /\ UNCHANGED <<pc, fs0, folder_path, json_path, json_data, file_inventory, gi, todo, ti,
                 type_folder, listing, subfolders, subpending, subfolder>>

\* ------------------------------------------------------------ recount
\* Line 165: f"{subfolder.stem.split('_')[0]}_{count}"
NewName(name, count) == SplitFirst(Stem(name)) \o <<"_">> \o Str(count)

\* Lines 114 and 161-162: every listed entry was visited; list the type folder again.
StartUpdate ==
  /\ pc = "associate_file"
  /\ err = NoError
  /\ pending = {}
  /\ pc' = "update"
  /\ subfolders' = {e.path : e \in Listing(fs, type_folder)}
  /\ subpending' = {e.path : e \in Listing(fs, type_folder)}
  /\ UNCHANGED <<err, fs, fs0, folder_path, json_path, json_data, file_inventory, gi,
                 todo, ti, type_folder, listing, pending, file, subfolder, log>>

\* Lines 162-167: the loop body for one listed entry: a folder is renamed.
UpdateSubfolder ==
  /\ pc = "update"
  /\ err = NoError
  /\ subpending # {}
  /\ \E p \in subpending :
       LET count == Cardinality(Listing(fs, p))
           r == OsRename(fs, p, type_folder \o <<NewName(Basename(p), count)>>)
       IN /\ subpending' = subpending \ {p}
          /\ subfolder' = p
          /\ IF IsDir(fs, p)
             THEN /\ fs' = r.fs
                  /\ err' = r.err
             ELSE UNCHANGED <<err, fs>>
  /\ UNCHANGED <<pc, fs0, folder_path, json_path, json_data, file_inventory, gi, todo, ti,
                 type_folder, listing, pending, file, subfolders, log>>

\* Line 55: the type folder is done, on to the next extension.
UpdateDone ==
  /\ pc = "update"
  /\ err = NoError
  /\ subpending = {}
  /\ ti' = ti + 1
  /\ pc' = "associate"
  /\ UNCHANGED <<err, fs, fs0, folder_path, json_path, json_data, file_inventory, gi,
                 todo, type_folder, listing, pending, file, subfolders, subpending,
                 subfolder, log>>

Next ==
  \/ Validate
  \/ Scan
  \/ CategorizeGroup
  \/ MoveToTypeFolder
  \/ NextGroup
  \/ AssociateResolve
  \/ AssociateFile
  \/ StartUpdate
  \/ UpdateSubfolder
  \/ UpdateDone

Spec == Init /\ [][Next]_vars

\* ------------------------------------------------------------ claims
\* The regular files that lay directly under the root at the start.
InitialFiles == {e \in Listing(fs0, Root) : e.kind = "file"}
\* The run is over: main returned, or an exception ended it.
Ended == pc \in {"done", "invalid"} \/ err # NoError

\* The part of a folder name after its last underscore.
AfterLastUnderscore(s) ==
  IF \E i \in 1..Len(s) : s[i] = "_"
  THEN SubSeq(s, 1 + (CHOOSE i \in 1..Len(s) : s[i] = "_" /\ \A j \in (i+1)..Len(s) : s[j] # "_"), Len(s))
  ELSE <<>>

\* C1: a full run on a folder that holds only statement_9988.csv and random.csv,
\* with the registry {Chase: CHK1, [9988]}, ends with statement_9988.csv in
\* CSV_2/Chase_1, random.csv directly in CSV_2 and nothing else moved.
C1_Scenario ==
  /\ fs0 = RootFiles({1, 2})
  /\ json_data = RegChase
  /\ folder_path = "dir"
  /\ json_path = "present"
C1_ChaseScenario ==
  (C1_Scenario /\ Ended) =>
    /\ pc = "done"
    /\ err = NoError
    /\ fs = {DirEntry(<<<<"C","S","V","_","2">>>>),
             DirEntry(<<<<"C","S","V","_","2">>, <<"C","h","a","s","e","_","1">>>>),
             FileEntry(<<<<"C","S","V","_","2">>, <<"C","h","a","s","e","_","1">>, Catalog[1].name>>, 1),
             FileEntry(<<<<"C","S","V","_","2">>, Catalog[2].name>>, 2)}
    /\ \E l \in log : l.ev = "match" /\ l.by = "account" /\ l.bank = Chase.name

\* C2: when categorize_files_by_type has returned, every file that lay under the
\* root is inside a folder directly under the root whose name starts with the
\* file's extension in upper case and ends with the number of files that had that
\* extension, and no regular file is left directly under the root.
C2_Categorized ==
  (pc = "associate" /\ ti = 1 /\ err = NoError) =>
    /\ \A e \in InitialFiles :
         \E d \in Listing(fs, Root) :
           /\ d.kind = "dir"
           /\ FileEntry(d.path \o <<Basename(e.path)>>, e.id) \in fs
           /\ IsPrefix(Upper(Tail1(Ext(Basename(e.path)))), Basename(d.path))
           /\ AfterLastUnderscore(Basename(d.path)) =
                Str(Cardinality({x \in InitialFiles :
                                   Ext(Basename(x.path)) = Ext(Basename(e.path))}))
    /\ \A e \in Listing(fs, Root) : e.kind # "file"

\* C8: when the folder path does not name an existing folder, or ./bank.json is
\* missing, main returns early: no exception, and the tree is left as it was.
C8_InvalidInputReturnsEarly ==
  (folder_path # "dir" \/ json_path = "missing") =>
    /\ err = NoError
    /\ fs = fs0
    /\ pc \in {"main", "scan", "invalid"}
    /\ (Ended => pc = "invalid")

\* C10: in every state of a run, every regular file that lay directly under the
\* root exists exactly once in the tree, under its original name.
C10_FilesConserved ==
  \A e \in InitialFiles :
    /\ Cardinality({x \in fs : x.kind = "file" /\ x.id = e.id}) = 1
    /\ \A x \in fs : (x.kind = "file" /\ x.id = e.id) => Basename(x.path) = Basename(e.path)

\* C6: when update_subfolder_counts has visited every entry of the type folder,
\* every folder directly inside the type folder is named <base>_<k>: <base> the
\* part before the first underscore of a name it listed, k the number of entries
\* now inside the folder.
C6_SubfoldersNamedBaseCount ==
  (pc = "update" /\ subpending = {} /\ err = NoError) =>
    \A d \in Listing(fs, type_folder) :
      d.kind = "dir" =>
        \E p \in subfolders :
          Basename(d.path) =
            SplitFirst(Basename(p)) \o <<"_">> \o Str(Cardinality(Listing(fs, d.path)))

\* What the claims about attribution speak of, stated from the registry and the
\* file alone.  e is a listed entry; its content is that of the file it names.
NameOf(e) == Basename(e.path)
Banks == 1..Len(json_data)
AccountIds(i) == {json_data[i].Accounts[k].Account_ID : k \in 1..Len(json_data[i].Accounts)}

\* The pattern compiles and is found somewhere in s.
PatternFound(pat, s) ==
  /\ \A j \in 1..Len(pat) : pat[j] # "("
  /\ \E i \in 0..(Len(s) - Len(pat)) : \A j \in 1..Len(pat) : pat[j] \in {".", s[i + j]}

\* Bank i matches the name of e: its display name is a substring of the name, or
\* its Bank_ID or one of its Account_IDs is found in the name as a pattern.
NameMatches(i, e) ==
  \/ Contains(json_data[i].name, NameOf(e))
  \/ PatternFound(json_data[i].Bank_ID, NameOf(e))
  \/ \E a \in AccountIds(i) : PatternFound(a, NameOf(e))

\* The content of e, as its reader returns it, holds the account id a: as a
\* pattern in a cell of a CSV, as a plain substring of a page of a PDF.
IsCsv(e) == Lower(Suffix(NameOf(e))) = <<".","c","s","v">>
IsPdf(e) == Lower(Suffix(NameOf(e))) = <<".","p","d","f">>
InContent(a, e) ==
  /\ Readable(e.id)
  /\ \/ IsCsv(e) /\ \E k \in 1..Len(Text(e.id)) : PatternFound(a, Text(e.id)[k])
     \/ IsPdf(e) /\ \E k \in 1..Len(Text(e.id)) : Contains(a, Text(e.id)[k])
ContentMatches(i, e) == \E a \in AccountIds(i) : InContent(a, e)

\* Bank i matches e by some method; the first bank in registry order that does
\* (0 when none does).
Matches(i, e) == NameMatches(i, e) \/ ContentMatches(i, e)
FirstBank(e) ==
  IF \E i \in Banks : Matches(i, e)
  THEN CHOOSE i \in Banks : Matches(i, e) /\ \A j \in 1..(i-1) : ~Matches(j, e)
  ELSE 0

\* The associator's loop body has just run on a regular file: `file`.
FileStepDone == pc = "associate_file" /\ file.kind = "file"
\* The file the loop body ran on is inside the bank folder of bank i.
InBankFolder(i) ==
  FileEntry(type_folder \o <<json_data[i].name, NameOf(file)>>, file.id) \in fs
\* The file the loop body ran on did not move.
InPlace == FileEntry(file.path, file.id) \in fs
MatchLines == {l \in log : l.ev = "match" /\ l.file = file.path}
CheckLines == {l \in log : l.ev = "check" /\ l.file = file.path}
BankIndex(name) == CHOOSE i \in Banks : json_data[i].name = name

\* C7: attribution is bank-major and first-match-wins: when the loop body has run
\* on a file that some bank matches, the file is in the bank folder of the first
\* bank in registry order that matches it by any method, it was matched once, to
\* that bank, and no content check of a later bank was made.
C7_FirstMatchWins ==
  (FileStepDone /\ err = NoError /\ FirstBank(file) # 0) =>
    /\ InBankFolder(FirstBank(file))
    /\ \E l \in MatchLines : MatchLines = {l} /\ l.bank = json_data[FirstBank(file)].name
    /\ \A l \in CheckLines : BankIndex(l.bank) <= FirstBank(file)

\* The path of bank i's folder was a regular file, and the move renamed the file
\* the loop body ran on onto it.
OntoBankPath(i) == FileEntry(type_folder \o <<json_data[i].name>>, file.id) \in fs
\* The loop body raised on `file`.
FileStepRaised == pc = "associate_file" /\ file.kind = "file" /\ err # NoError

NoIdentifierInName(e) ==
  \A i \in Banks :
    /\ ~Contains(json_data[i].name, NameOf(e))
    /\ ~Contains(json_data[i].Bank_ID, NameOf(e))
    /\ \A a \in AccountIds(i) : ~Contains(a, NameOf(e))
\* The account id a is a substring of a cell or of a page of the content of e.
LiteralInContent(a, e) ==
  /\ Readable(e.id)
  /\ IsCsv(e) \/ IsPdf(e)
  /\ \E k \in 1..Len(Text(e.id)) : Contains(a, Text(e.id)[k])
ContentLine(i) ==
  \E l \in MatchLines : l.bank = json_data[i].name /\ l.by \in {"csv", "pdf"}

C5_UnmatchedStays ==
  \A e \in listing :
    (e.kind = "file" /\ \A i \in Banks : ~Matches(i, e)) => e \in fs
C5_Witness ==
  /\ pc = "associate"
  /\ ti > 1
  /\ err = NoError
  /\ \E e \in listing : e.kind = "file" /\ (\A i \in Banks : ~Matches(i, e)) /\ e \in fs
  /\ \E l \in log : l.ev = "match" /\ IsPrefix(type_folder, l.file)
  /\ \E d \in Listing(fs, type_folder) : d.kind = "dir"

\* C9: when the folder to count exists and the type folder resolved from its
\* count does not, the extension is skipped: the step raises nothing, changes
\* nothing in the tree, prints no match, and the loop is at the next extension.
SkipCase ==
  /\ pc = "associate"
  /\ err = NoError
  /\ ti <= Len(file_inventory)
  /\ IsDir(fs, CountedFolder(file_inventory[ti].ext))
  /\ ~Exists(fs, ResolvedTypeFolder(fs, file_inventory[ti].ext))
C9_MissingTypeFolderSkipped ==
  [][SkipCase => (pc' = "associate" /\ ti' = ti + 1 /\ err' = NoError /\ fs' = fs /\ log' = log)]_vars
C9_Witness ==
  /\ pc = "associate_file"
  /\ err = NoError
  /\ \E j \in 1..(ti - 1) :
       /\ IsDir(fs, CountedFolder(file_inventory[j].ext))
       /\ ~Exists(fs, ResolvedTypeFolder(fs, file_inventory[j].ext))
  /\ file.kind = "file"
  /\ MatchLines # {}

====
